---- MODULE Spec2Model ----
(***************************************************************************)
(* A model of go-onion-transport (src/onion_transport.go): the address     *)
(* validator, the key loader run by NewOnionTransport, and the             *)
(* Dial / Listen / Accept / Close state machine of OnionTransport and      *)
(* OnionListener.                                                          *)
(*                                                                         *)
(* Strings are sequences of one-character strings, so that Split, ToUpper, *)
(* Atoi, HasSuffix and Replace are computed as the Go library computes     *)
(* them.  A multiaddr is a sequence of components [kind, value].  An       *)
(* optional value is <<>> (absent, Go's nil) or <<v>>.                     *)
(***************************************************************************)
EXTENDS Integers, Sequences, FiniteSets, TLC

VARIABLES
    keys,       \* OnionTransport.keys: service name -> private key
    onlyOnion,  \* OnionTransport.onlyOnion
    laddr,      \* OnionTransport.laddr, <<>> while nil
    Upgrader,   \* OnionTransport.Upgrader, <<>> while nil
    listeners,  \* the OnionListeners returned by Listen, with their raw listeners
    raws,       \* the raw connections opened through the proxy dialer
    calls,      \* the Dial and Accept calls in flight
    conns,      \* the OnionConns constructed by Dial and Accept
    ctl,        \* what the control channel was asked for
    ctor,       \* the position of NewOnionTransport and what it returned
    ev          \* the last call that returned, with its result

vars == <<keys, onlyOnion, laddr, Upgrader, listeners, raws, calls, conns, ctl, ctor, ev>>

tvars == <<keys, onlyOnion, laddr, Upgrader, listeners, raws, calls, conns, ctl>>

None == <<>>

Some(v) == <<v>>

(***************************************************************************)
(* Strings                                                                 *)
(***************************************************************************)
Lowers == <<"a","b","c","d","e","f","g","h","i","j","k","l","m",
            "n","o","p","q","r","s","t","u","v","w","x","y","z">>

Uppers == <<"A","B","C","D","E","F","G","H","I","J","K","L","M",
            "N","O","P","Q","R","S","T","U","V","W","X","Y","Z">>

Digits == <<"0","1","2","3","4","5","6","7","8","9">>

DigitSet == {Digits[i] : i \in 1..Len(Digits)}

\* strings.ToUpper on one character
ToUpperChar(c) ==
    IF \E i \in 1..Len(Lowers) : Lowers[i] = c
    THEN Uppers[CHOOSE i \in 1..Len(Lowers) : Lowers[i] = c]
    ELSE c

\* strings.ToUpper
ToUpper(s) == [i \in 1..Len(s) |-> ToUpperChar(s[i])]

\* strings.Split(s, sep) for a one-character separator: never empty,
\* Split("", ":") is <<"">>
RECURSIVE Split(_, _)
Split(s, sep) ==
    IF \E i \in 1..Len(s) : s[i] = sep
    THEN LET i == CHOOSE k \in 1..Len(s) :
                      s[k] = sep /\ \A j \in 1..(k - 1) : s[j] # sep
         IN  <<SubSeq(s, 1, i - 1)>> \o Split(SubSeq(s, i + 1, Len(s)), sep)
    ELSE <<s>>

\* the alphabet of base32.StdEncoding
B32Alphabet == {Uppers[i] : i \in 1..Len(Uppers)} \cup {"2","3","4","5","6","7"}

\* the newline characters DecodeString removes before decoding
StripNewlines(s) == SelectSeq(s, LAMBDA c : c \notin {"\n", "\r"})

\* Encoding.decode of base32.StdEncoding, one 8-character quantum at a time:
\* TRUE when it returns no CorruptInputError.  j is the position in the
\* quantum.  Padding is accepted from position 2 on in the last quantum, must
\* fill it, and may not follow 1, 3 or 6 data characters.
RECURSIVE B32Decode(_, _)
B32Decode(src, j) ==
    IF j = 8 THEN (src = <<>> \/ B32Decode(src, 0))
    ELSE IF src = <<>> THEN FALSE
    ELSE LET in == Head(src)
             rest == Tail(src)
         IN  IF in = "=" /\ j >= 2 /\ Len(rest) < 8
             THEN /\ Len(rest) + j >= 8 - 1
                  /\ \A k \in 0..(8 - 1 - j - 1) :
                        Len(rest) > k => rest[k + 1] = "="
                  /\ j \notin {1, 3, 6}
             ELSE in \in B32Alphabet /\ B32Decode(rest, j + 1)

\* base32.StdEncoding.DecodeString(s) returns no error
B32DecodeString(s) ==
    LET t == StripNewlines(s) IN t = <<>> \/ B32Decode(t, 0)

DigitVal(c) == (CHOOSE i \in 1..Len(Digits) : Digits[i] = c) - 1

RECURSIVE DecVal(_)
DecVal(s) ==
    IF s = <<>> THEN 0
    ELSE DecVal(SubSeq(s, 1, Len(s) - 1)) * 10 + DigitVal(s[Len(s)])

\* strconv.Atoi: an optional sign, then one or more decimal digits.  Values
\* are computed for up to 9 digits; a longer digit string is reported as the
\* range error Atoi gives for an int64 overflow.
Atoi(s) ==
    LET signed == Len(s) > 0 /\ s[1] \in {"+", "-"}
        body == IF signed THEN Tail(s) ELSE s
    IN  IF body = <<>> \/ (\E i \in 1..Len(body) : body[i] \notin DigitSet)
             \/ Len(body) > 9
        THEN [err |-> TRUE, val |-> 0]
        ELSE [err |-> FALSE,
              val |-> IF s[1] = "-" THEN 0 - DecVal(body) ELSE DecVal(body)]

(***************************************************************************)
(* Multiaddrs                                                              *)
(***************************************************************************)
Comp(kind, value) == [kind |-> kind, value |-> value]

\* a.Protocols(): the names of the components, in order
Protocols(a) == [i \in 1..Len(a) |-> a[i].kind]

\* a.ValueForProtocol(code): the value of the first component of that kind
ValueForProtocol(a, kind) ==
    IF \E i \in 1..Len(a) : a[i].kind = kind
    THEN [err |-> FALSE,
          val |-> a[CHOOSE i \in 1..Len(a) :
                        a[i].kind = kind /\ \A j \in 1..(i - 1) : a[j].kind # kind].value]
    ELSE [err |-> TRUE, val |-> <<>>]

IdLen == 16

PortLimit == 65536

IsValidOnionMultiAddr_PortOffByOne(a) ==
    /\ Len(Protocols(a)) = 1
    /\ Protocols(a)[1] = "onion"
    /\ LET split == Split(ValueForProtocol(a, "onion").val, ":")
       IN  /\ Len(split) = 2
           /\ Len(split[1]) = IdLen
           /\ B32DecodeString(ToUpper(split[1]))
           /\ ~Atoi(split[2]).err
           /\ ~(Atoi(split[2]).val > PortLimit \/ Atoi(split[2]).val < 1)

\* IsValidOnionMultiAddr, check by check in the order of the code
IsValidOnionMultiAddr(a) ==
    IF Len(Protocols(a)) # 1 THEN FALSE
    ELSE IF Protocols(a)[1] # "onion" THEN FALSE
    ELSE LET addr == ValueForProtocol(a, "onion")
         IN  IF addr.err THEN FALSE
             ELSE LET split == Split(addr.val, ":")
                  IN  IF Len(split) # 2 THEN FALSE
                      ELSE IF Len(split[1]) # IdLen THEN FALSE
                      ELSE IF ~B32DecodeString(ToUpper(split[1])) THEN FALSE
                      ELSE LET i == Atoi(split[2])
                           IN  IF i.err THEN FALSE
                               ELSE IF i.val >= PortLimit \/ i.val < 1 THEN FALSE
                               ELSE TRUE

\* mafmt.TCP.Matches(a): an IP component followed by a TCP component
TCPMatches(a) ==
    /\ Len(a) = 2
    /\ a[1].kind \in {"ip4", "ip6"}
    /\ a[2].kind = "tcp"

\* manet.ToNetAddr(a): the net.Addr of an IP, IP/TCP or IP/UDP multiaddr
ToNetAddr(a) ==
    IF /\ Len(a) \in {1, 2}
       /\ a[1].kind \in {"ip4", "ip6"}
       /\ Len(a) = 2 => a[2].kind \in {"tcp", "udp"}
    THEN [err |-> FALSE,
          network |-> IF Len(a) = 1 THEN "ip" ELSE a[2].kind,
          host |-> a[1].value,
          port |-> IF Len(a) = 1 THEN <<>> ELSE a[2].value]
    ELSE [err |-> TRUE, network |-> "", host |-> <<>>, port |-> <<>>]

CanDial_PolicySwapped(only, a) ==
    IF ~only
    THEN IsValidOnionMultiAddr(a)
    ELSE IsValidOnionMultiAddr(a) \/ TCPMatches(a)

\* OnionTransport.CanDial, for a Transport whose onlyOnion is `only`
CanDial(only, a) ==
    IF only
    THEN IsValidOnionMultiAddr(a)
    ELSE IsValidOnionMultiAddr(a) \/ TCPMatches(a)

(***************************************************************************)
(* Key files.  A directory is the sequence of the entries filepath.Walk    *)
(* visits, in its lexical order.  An entry is [path, kind, content]; the   *)
(* content of a file is a key ("K1", "K2": a PEM block holding a PKCS#1    *)
(* key), "badDER" (a PEM block whose bytes are no PKCS#1 key), "garbage"   *)
(* (bytes holding no PEM block) or "noperm" (a file that cannot be opened).*)
(***************************************************************************)
Suffix == <<".","o","n","i","o","n","_","k","e","y">>

\* strings.HasSuffix
HasSuffix(s, suf) ==
    /\ Len(s) >= Len(suf)
    /\ SubSeq(s, Len(s) - Len(suf) + 1, Len(s)) = suf

\* strings.Index: the start of the first occurrence of sub in s, 0 if none
Index(s, sub) ==
    LET at(i) == SubSeq(s, i, i + Len(sub) - 1) = sub
        range == 1..(Len(s) - Len(sub) + 1)
    IN  IF \E i \in range : at(i)
        THEN CHOOSE i \in range : at(i) /\ \A j \in 1..(i - 1) : ~at(j)
        ELSE 0

\* strings.Replace(s, old, new, 1): the first occurrence of old replaced
ReplaceFirst(s, old, new) ==
    LET i == Index(s, old)
    IN  IF i = 0 THEN s
        ELSE SubSeq(s, 1, i - 1) \o new \o SubSeq(s, i + Len(old), Len(s))

\* filepath.Base: what follows the last separator
Base(path) ==
    IF \E i \in 1..Len(path) : path[i] = "/"
    THEN LET i == CHOOSE k \in 1..Len(path) :
                      path[k] = "/" /\ \A j \in (k + 1)..Len(path) : path[j] # "/"
         IN  SubSeq(path, i + 1, Len(path))
    ELSE path

\* os.Open(path) returns an error
OpenFails(e) == e.content = "noperm"

\* ioutil.ReadFile(path) returns an error: a directory cannot be read
ReadFails(e) == e.kind = "dir" \/ e.content = "noperm"

\* pem.Decode(key): the block, nil when the bytes hold no PEM block
PemDecode(content) == IF content = "garbage" THEN None ELSE Some(content)

\* pkcs1.DecodePrivateKeyDER(block.Bytes)
DecodePrivateKeyDER(der) ==
    IF der = "badDER" THEN [err |-> TRUE, key |-> "nil"]
    ELSE [err |-> FALSE, key |-> der]

\* onionName of line 155
OnionName(e) == ReplaceFirst(Base(e.path), Suffix, <<>>)

\* walkpath, the closure of loadKeys, on one entry; acc is the map so far.
\* block.Bytes on a nil block is a nil pointer dereference: a panic.
walkpath(e, acc) ==
    IF HasSuffix(e.path, Suffix)
    THEN IF OpenFails(e) THEN [ret |-> "err", keys |-> acc]
         ELSE IF ReadFails(e) THEN [ret |-> "err", keys |-> acc]
         ELSE LET onionName == OnionName(e)
                  block == PemDecode(e.content)
              IN  IF block = None THEN [ret |-> "panic", keys |-> acc]
                  ELSE LET d == DecodePrivateKeyDER(block[1])
                       IN  IF d.err THEN [ret |-> "err", keys |-> acc]
                           ELSE [ret |-> "nil",
                                 keys |-> (onionName :> d.key) @@ acc]
    ELSE [ret |-> "nil", keys |-> acc]

\* filepath.Walk(absPath, walkpath) from entry i on: it stops at the first
\* error walkpath returns
RECURSIVE Walk(_, _, _)
Walk(entries, i, acc) ==
    IF i > Len(entries) THEN [ret |-> "nil", keys |-> acc]
    ELSE LET r == walkpath(entries[i], acc)
         IN  IF r.ret # "nil" THEN r ELSE Walk(entries, i + 1, r.keys)

\* loadKeys on a directory [resolves, entries]: what it returns (keys, err),
\* or that it panicked.  keys is <<>> for the nil map, else <<map>>.
loadKeys(dir) ==
    IF ~dir.resolves THEN [panic |-> FALSE, err |-> TRUE, keys |-> None]
    ELSE LET r == Walk(dir.entries, 1, <<>>)
         IN  [panic |-> r.ret = "panic",
              err |-> r.ret = "err",
              keys |-> IF r.ret = "panic" THEN None ELSE Some(r.keys)]

(***************************************************************************)
(* The directories NewOnionTransport is run on: up to MaxFiles of the      *)
(* paths below, each file with any content.                                *)
(***************************************************************************)
MaxFiles == 2

Chars_alice == <<"a","l","i","c","e">>

Chars_bob == <<"b","o","b">>

PathInputs ==
    << <<"a">> \o Suffix \o <<"b">> \o Suffix,
       Chars_alice \o Suffix,
       Chars_bob \o Suffix,
       <<"k","e","y","s">> \o Suffix,
       <<"n","o","t","e","s",".","t","x","t">>,
       <<"s","u","b","/">> \o Chars_alice \o Suffix >>

\* keys.onion_key is a directory, the others are files
KindInputs == <<"file", "file", "file", "dir", "file", "file">>

ContentInputs == {"K1", "K2", "badDER", "garbage", "noperm"}

\* the entries of the choice d: path index -> content, or "absent"
EntriesOf(d) ==
    LET all == [i \in 1..Len(PathInputs) |->
                   [path |-> PathInputs[i], kind |-> KindInputs[i], content |-> d[i]]]
    IN  SelectSeq(all, LAMBDA e : e.content # "absent")

DirInputs ==
    LET choices == {d \in [1..Len(PathInputs) -> ContentInputs \cup {"absent", "dir"}] :
                      /\ \A i \in 1..Len(PathInputs) :
                            (d[i] = "dir") => (KindInputs[i] = "dir")
                      /\ \A i \in 1..Len(PathInputs) :
                            (KindInputs[i] = "dir") => (d[i] \in {"dir", "absent"})
                      /\ Cardinality({i \in 1..Len(PathInputs) : d[i] # "absent"})
                            <= MaxFiles}
    IN  {[resolves |-> r, entries |-> EntriesOf(d)] :
            r \in BOOLEAN, d \in choices}

(***************************************************************************)
(* The last call that returned.  n is the number of the call among the     *)
(* Dial and Accept calls in the order they started (0 for another call);   *)
(* the other fields are those the call has; stages lists what a Dial asked *)
(* of its collaborators, in order: the control channel for a dialer, the   *)
(* dialer for the raw connection, the upgrader for the upgrade.            *)
(***************************************************************************)
EvNone ==
    [op |-> "none", n |-> 0, addr |-> <<>>, res |-> "", val |-> FALSE,
     lis |-> 0, raw |-> 0, conn |-> 0, cancelled |-> FALSE,
     afterClose |-> FALSE, upgraded |-> FALSE, stages |-> <<>>]

Returned(op, n, res) == [EvNone EXCEPT !.op = op, !.n = n, !.res = res]

Crashed == ev.res = "panic"

\* no result is waiting for its caller
Idle == ev.op = "none"

(***************************************************************************)
(* NewOnionTransport, a step per collaborator it calls                     *)
(***************************************************************************)
CtorStart(dir) ==
    [pc |-> "dial", dir |-> dir, ran |-> <<>>, failed |-> "none",
     ret |-> "none", loaded |-> [panic |-> FALSE, err |-> FALSE, keys |-> None]]

\* bulb.Dial(controlNet, controlAddr), lines 99-102
CtorDial ==
    /\ ctor.pc = "dial"
    /\ \E ok \in BOOLEAN :
          ctor' = [ctor EXCEPT !.ran = Append(@, "dial"),
                               !.pc = IF ok THEN "auth" ELSE "done",
                               !.failed = IF ok THEN @ ELSE "dial",
                               !.ret = IF ok THEN @ ELSE "error"]
    /\ UNCHANGED <<tvars, ev>>

\* conn.Authenticate(controlPass), lines 103-105
CtorAuthenticate ==
    /\ ctor.pc = "auth"
    /\ \E ok \in BOOLEAN :
          ctor' = [ctor EXCEPT !.ran = Append(@, "auth"),
                               !.pc = IF ok THEN "load" ELSE "done",
                               !.failed = IF ok THEN @ ELSE "auth",
                               !.ret = IF ok THEN @ ELSE "error"]
    /\ UNCHANGED <<tvars, ev>>

\* o.loadKeys() and the return, lines 106-117
CtorLoadKeys ==
    /\ ctor.pc = "load"
    /\ LET r == loadKeys(ctor.dir)
           good == ~r.panic /\ ~r.err
       IN  /\ ctor' = [ctor EXCEPT !.ran = Append(@, "load"),
                                   !.pc = "done",
                                   !.loaded = r,
                                   !.failed = IF good THEN @ ELSE "load",
                                   !.ret = IF r.panic THEN "panic"
                                           ELSE IF r.err THEN "error"
                                           ELSE "transport"]
           /\ keys' = IF good THEN r.keys[1] ELSE keys
    /\ UNCHANGED <<onlyOnion, laddr, Upgrader, listeners, raws, calls, conns, ctl, ev>>

InitKeys ==
    /\ keys = <<>>
    /\ onlyOnion \in BOOLEAN
    /\ laddr = None
    /\ Upgrader = None
    /\ listeners = <<>>
    /\ raws = <<>>
    /\ calls = {}
    /\ conns = <<>>
    /\ ctl = [dialers |-> 0, listenReqs |-> <<>>, started |-> 0]
    /\ ev = EvNone
    /\ \E dir \in DirInputs : ctor = CtorStart(dir)

NextKeys == CtorDial \/ CtorAuthenticate \/ CtorLoadKeys

\* NewOnionTransport on every directory of DirInputs
SpecKeys == InitKeys /\ [][NextKeys]_vars

\* the files with the key-file suffix, as the walk finds them
KeyFiles == SelectSeq(ctor.dir.entries, LAMBDA e : HasSuffix(e.path, Suffix))

\* the base name with the suffix stripped
StripSuffix(s) == SubSeq(s, 1, Len(s) - Len(Suffix))

LoadRan == ctor.pc = "done" /\ ctor.ran = <<"dial", "auth", "load">>

\* C6: key loading is all-or-nothing: when a key file the walk finds does not
\* decode (a PEM block that holds no key, or bytes that hold no PEM block),
\* the load ends with an error and leaves no key map, not even a partial one.
C6_LoadAllOrNothing ==
    (/\ LoadRan
     /\ ctor.dir.resolves
     /\ \E i \in 1..Len(KeyFiles) :
           /\ KeyFiles[i].kind = "file"
           /\ KeyFiles[i].content \in {"badDER", "garbage"})
    => (/\ ~ctor.loaded.panic
        /\ ctor.loaded.err
        /\ ctor.ret = "error"
        /\ keys = <<>>)

\* C7: construction returns a Transport only when connecting, authenticating
\* and loading the keys all succeeded, in that order; when a step fails it
\* returns an error and no Transport, and no later step runs.
C7_ConstructionAllThree ==
    ctor.pc = "done" =>
        /\ ctor.ret \in {"transport", "error"}
        /\ (ctor.ret = "transport") <=>
              (ctor.ran = <<"dial", "auth", "load">> /\ ctor.failed = "none")
        /\ (ctor.failed # "none") =>
              /\ ctor.ret = "error"
              /\ ctor.ran[Len(ctor.ran)] = ctor.failed
              /\ ctor.ran = SubSeq(<<"dial", "auth", "load">>, 1, Len(ctor.ran))

\* C10: a load that succeeds returns a map whose names are exactly the base
\* names, suffix stripped, of the files with the suffix, each mapped to the
\* key of its file, the last walked when two files give one name.
C10_LoadedNames ==
    (LoadRan /\ ctor.ret = "transport") =>
        /\ DOMAIN keys = {StripSuffix(Base(KeyFiles[i].path)) : i \in 1..Len(KeyFiles)}
        /\ \A i \in 1..Len(KeyFiles) :
              (\A j \in (i + 1)..Len(KeyFiles) :
                  StripSuffix(Base(KeyFiles[j].path)) # StripSuffix(Base(KeyFiles[i].path)))
              => (/\ StripSuffix(Base(KeyFiles[i].path)) \in DOMAIN keys
                  /\ keys[StripSuffix(Base(KeyFiles[i].path))] = KeyFiles[i].content)

(***************************************************************************)
(* The Transport that NewOnionTransport returns for the directory Dir0,    *)
(* which holds the key of the service IdA.                                 *)
(***************************************************************************)
Str(n, c) == [i \in 1..n |-> c]

IdA == Str(IdLen, "a")

IdB == Str(IdLen, "b")

Dir0 ==
    [resolves |-> TRUE,
     entries |-> << [path |-> IdA \o Suffix, kind |-> "file", content |-> "K1"] >>]

CtorReturned(dir) ==
    [CtorStart(dir) EXCEPT !.pc = "done", !.ran = <<"dial", "auth", "load">>,
                           !.ret = "transport", !.loaded = loadKeys(dir)]

TransportInit ==
    /\ keys = loadKeys(Dir0).keys[1]
    /\ onlyOnion \in BOOLEAN
    /\ laddr = None
    /\ Upgrader = None
    /\ listeners = <<>>
    /\ raws = <<>>
    /\ calls = {}
    /\ conns = <<>>
    /\ ctl = [dialers |-> 0, listenReqs |-> <<>>, started |-> 0]
    /\ ctor = CtorReturned(Dir0)
    /\ ev = EvNone

(***************************************************************************)
(* The addresses validation and CanDial are asked about: every identifier  *)
(* of IdInputs with every port text of PortInputs, in values of up to      *)
(* MaxParts parts, as a component of a service or another kind, alone or   *)
(* in addresses of up to MaxComps components.                              *)
(***************************************************************************)
MaxParts == 3

MaxComps == 2

IdInputs ==
    { IdA,
      Str(4, "a") \o Str(4, "B") \o Str(4, "2") \o Str(4, "7"),
      Str(IdLen - 1, "a") \o <<"1">>,
      Str(IdLen - 1, "a") \o <<"!">>,
      Str(IdLen - 1, "a"),
      Str(IdLen + 1, "a"),
      Str(IdLen - 1, "a") \o <<"=">>,
      Str(IdLen - 2, "a") \o <<"=", "=">>,
      Str(8, "a") \o Str(8, "\n"),
      <<>> }

PortInputs ==
    { <<"0">>, <<"1">>, <<"8","0">>, <<"0","8","0">>, <<"+","8","0">>,
      <<"-","1">>, <<"6","5","5","3","5">>, <<"6","5","5","3","6">>,
      <<"6","5","5","3","7">>, <<"9","9","9","9","9","9">>,
      <<"8","a">>, <<>> }

\* id, id:port, id:port:80, ...
RECURSIVE Extra(_)
Extra(k) == IF k = 0 THEN <<>> ELSE <<":", "8", "0">> \o Extra(k - 1)

ValueInputs ==
    IdInputs \cup
    {id \o <<":">> \o p \o Extra(k) :
        id \in IdInputs, p \in PortInputs, k \in 0..(MaxParts - 2)}

PlainComps ==
    { Comp("ip4", <<"h">>), Comp("tcp", <<"8","0">>), Comp("udp", <<"5","3">>),
      Comp("onion", IdA \o <<":", "8", "0">>) }

RECURSIVE AddrsOfLen(_)
AddrsOfLen(n) ==
    IF n = 0 THEN { <<>> }
    ELSE {Append(a, c) : a \in AddrsOfLen(n - 1), c \in PlainComps}

AddrInputs ==
    {<<Comp(k, v)>> : k \in {"onion", "onion3"}, v \in ValueInputs}
    \cup UNION {AddrsOfLen(n) : n \in 0..MaxComps}

\* a call of IsValidOnionMultiAddr(a)
Validate(a) ==
    /\ ~Crashed
    /\ ev' = [EvNone EXCEPT !.op = "IsValidOnionMultiAddr", !.n = ev.n, !.res = "ok",
                              !.addr = a, !.val = IsValidOnionMultiAddr(a)]
    /\ UNCHANGED <<tvars, ctor>>

\* a call of t.CanDial(a)
CanDialCall(a) ==
    /\ ~Crashed
    /\ ev' = [EvNone EXCEPT !.op = "CanDial", !.n = ev.n, !.res = "ok",
                              !.addr = a, !.val = CanDial(onlyOnion, a)]
    /\ UNCHANGED <<tvars, ctor>>

NextAddr ==
    \/ \E a \in AddrInputs : Validate(a)
    \/ \E a \in AddrInputs : CanDialCall(a)

\* validation and CanDial on every address of AddrInputs
SpecAddr == TransportInit /\ [][NextAddr]_vars

\* the parts of the value of a one-component address
PartsOf(a) == Split(a[1].value, ":")

\* the text is a base-10 integer: an optional sign and digits
IsDecimal(s) ==
    LET body == IF Len(s) > 0 /\ s[1] \in {"+", "-"} THEN Tail(s) ELSE s
    IN  Len(body) \in 1..9 /\ \A i \in 1..Len(body) : body[i] \in DigitSet

\* its value
DecimalValue(s) ==
    IF s[1] = "-" THEN 0 - DecVal(Tail(s))
    ELSE IF s[1] = "+" THEN DecVal(Tail(s)) ELSE DecVal(s)

\* the address is a valid service address, as the claim C9 words it
ValidServiceAddress(a) ==
    /\ Len(a) = 1
    /\ a[1].kind = "onion"
    /\ Len(PartsOf(a)) = 2
    /\ Len(PartsOf(a)[1]) = 16
    /\ B32DecodeString(ToUpper(PartsOf(a)[1]))
    /\ IsDecimal(PartsOf(a)[2])
    /\ DecimalValue(PartsOf(a)[2]) \in 1..65535

\* the address is a plain network address: one manet.ToNetAddr converts,
\* the test by which Dial dials it directly
PlainNetworkAddress(a) == ~ToNetAddr(a).err

\* C9: validation returns true if and only if the address has exactly one
\* component, of the service kind, whose value splits on ':' into a
\* 16-character base32 identifier and a base-10 port in [1, 65535]; port 0, a
\* port of 65536 or more, zero components, two or more components and a
\* component of another kind all give false.
C9_ValidationIff ==
    ev.op = "IsValidOnionMultiAddr" =>
        /\ ev.val <=> ValidServiceAddress(ev.addr)
        /\ Len(ev.addr) # 1 => ~ev.val
        /\ (Len(ev.addr) = 1 /\ ev.addr[1].kind # "onion") => ~ev.val
        /\ (/\ Len(ev.addr) = 1
            /\ Len(PartsOf(ev.addr)) = 2
            /\ IsDecimal(PartsOf(ev.addr)[2])
            /\ DecimalValue(PartsOf(ev.addr)[2]) \notin 1..65535) => ~ev.val

\* validation answered true for port 65535, the last valid port
C9_Witness ==
    /\ ev.op = "IsValidOnionMultiAddr"
    /\ ev.val
    /\ PartsOf(ev.addr)[2] = <<"6","5","5","3","5">>

\* C8 as claimed: under the service-only policy CanDial is true exactly for
\* valid service addresses, so false for every plain network address; under
\* the mixed policy it is true for every valid service address and for every
\* valid plain network address.
C8_CanDialEveryPlain ==
    ev.op = "CanDial" =>
        IF onlyOnion
        THEN /\ ev.val <=> ValidServiceAddress(ev.addr)
             /\ PlainNetworkAddress(ev.addr) => ~ev.val
        ELSE (ValidServiceAddress(ev.addr) \/ PlainNetworkAddress(ev.addr)) => ev.val

\* C8 as the code has it: under the mixed policy CanDial is true exactly for
\* the valid service addresses and the plain addresses of the form IP/TCP; a
\* plain address of another form (IP alone, IP/UDP) gives false.
C8_CanDialPlainTCP ==
    ev.op = "CanDial" =>
        IF onlyOnion
        THEN /\ ev.val <=> ValidServiceAddress(ev.addr)
             /\ PlainNetworkAddress(ev.addr) => ~ev.val
        ELSE /\ ev.val <=>
                  \/ ValidServiceAddress(ev.addr)
                  \/ /\ PlainNetworkAddress(ev.addr)
                     /\ Len(ev.addr) = 2
                     /\ ev.addr[2].kind = "tcp"
             /\ (PlainNetworkAddress(ev.addr) /\ Protocols(ev.addr) = <<"ip4", "udp">>)
                    => ~ev.val

\* under the mixed policy CanDial answered true for a plain IP/TCP address
C8_Witness ==
    /\ ev.op = "CanDial"
    /\ ~onlyOnion
    /\ Protocols(ev.addr) = <<"ip4", "tcp">>
    /\ ev.val

(***************************************************************************)
(* Dial, Listen, Accept and Close on the Transport of TransportInit.       *)
(*                                                                         *)
(* The collaborators are modelled at their interface.  The control channel *)
(* creates a dialer or a raw listener, or fails.  The proxy dialer reaches *)
(* a service when a raw listener is open for its key and port, and any     *)
(* plain address, or fails.  A raw listener's Accept returns its next      *)
(* pending connection, or an error once the listener is closed.  The       *)
(* upgrader honours its context: with a cancelled context it closes the    *)
(* raw connection and returns the cancellation error; otherwise it returns *)
(* the connection, or closes it and returns an error.  A call on a nil     *)
(* *Upgrader dereferences nil: a panic, which ends the program.  The       *)
(* caller of a call that returned takes its result before the next step.   *)
(***************************************************************************)
\* the Dial and Accept calls started
MaxCalls == 2

\* the listener-creation requests sent to the control channel
MaxListeners == 1

\* the raw connections opened
MaxRaws == 1

AddrA == <<Comp("onion", IdA \o <<":", "8", "0">>)>>

AddrB == <<Comp("onion", IdB \o <<":", "8", "0">>)>>

AddrTCP == <<Comp("ip4", <<"h">>), Comp("tcp", <<"8", "0">>)>>

\* the logical address of the raw peer of an accepted connection
AddrPeer == <<Comp("ip4", <<"l">>), Comp("tcp", <<"9">>)>>

ListenAddrs == {AddrA, AddrB, AddrTCP}

DialAddrs == {AddrA, AddrTCP}

\* the service a key serves: the identifier derived from its public half
ServiceOf(key) == IF key = "K1" THEN IdA ELSE <<>>

ListenPlan_NoKeyCheck(a) ==
    LET addr == Split(ValueForProtocol(a, "onion").val, ":")
    IN  IF Len(addr) # 2
        THEN [err |-> "failed to parse onion address", port |-> 0, key |-> "nil"]
        ELSE IF Atoi(addr[2]).err
        THEN [err |-> "failed to convert onion service port to int",
              port |-> 0, key |-> "nil"]
        ELSE [err |-> "", port |-> Atoi(addr[2]).val % 65536,
              key |-> IF addr[1] \in DOMAIN keys THEN keys[addr[1]] ELSE "nil"]

\* Listen up to the listener value of line 227: the error it returns, or the
\* port and key of the listener.  The error of ValueForProtocol is dropped
\* (lines 205-208), the value is then empty.
ListenPlan(a) ==
    LET netaddr == ValueForProtocol(a, "onion").val
        addr == Split(netaddr, ":")
    IN  IF Len(addr) # 2
        THEN [err |-> "failed to parse onion address", port |-> 0, key |-> "nil"]
        ELSE LET port == Atoi(addr[2])
             IN  IF port.err
                 THEN [err |-> "failed to convert onion service port to int",
                       port |-> 0, key |-> "nil"]
                 ELSE IF addr[1] \notin DOMAIN keys
                 THEN [err |-> "missing onion service key material",
                       port |-> 0, key |-> "nil"]
                 ELSE [err |-> "", port |-> port.val % 65536, key |-> keys[addr[1]]]

\* t.Constructor(upgrader)
Constructor ==
    /\ Idle
    /\ Upgrader = None
    /\ Upgrader' = Some("U")
    /\ UNCHANGED <<keys, onlyOnion, laddr, listeners, raws, calls, conns, ctl, ctor, ev>>

Started == [ctl EXCEPT !.started = @ + 1]

\* t.Listen(a) up to the return of controlConn.Listener (lines 202-241).
\* out is what the collaborators do: "ok", "derive" (pkcs1.OnionAddr fails)
\* or "bind" (the control channel creates no listener).  limit bounds the
\* listener-creation requests.
ListenWithin(limit, a, out) ==
    /\ Idle
    /\ LET p == ListenPlan(a)
           failed(res) == ev' = [Returned("Listen", 0, res) EXCEPT !.addr = a]
           request == [ctl EXCEPT !.listenReqs = Append(@, [port |-> p.port, key |-> p.key])]
       IN  IF p.err # ""
           THEN /\ failed(p.err)
                /\ UNCHANGED <<listeners, ctl>>
           ELSE IF out = "derive"
           THEN /\ failed("failed to derive onion ID")
                /\ UNCHANGED <<listeners, ctl>>
           ELSE IF out = "bind"
           THEN /\ Len(ctl.listenReqs) < limit
                /\ failed("listener creation error")
                /\ ctl' = request
                /\ UNCHANGED listeners
           ELSE /\ Len(ctl.listenReqs) < limit
                /\ ctl' = request
                /\ listeners' = Append(listeners,
                      [port |-> p.port, key |-> p.key, laddr |-> a,
                       transport |-> None, Upgrader |-> None,
                       open |-> TRUE, pending |-> <<>>, returned |-> FALSE])
                /\ UNCHANGED ev
    /\ UNCHANGED <<keys, onlyOnion, laddr, Upgrader, raws, calls, conns, ctor>>

\* t.Listen(a), with the listener-creation requests bounded by MaxListeners
Listen(a, out) == ListenWithin(MaxListeners, a, out)

\* a Listen that writes the local address only while none is set
ListenReturn_KeepsFirst(i) ==
    /\ Idle
    /\ ~listeners[i].returned
    /\ laddr' = IF laddr = None THEN Some(listeners[i].laddr) ELSE laddr
    /\ listeners' = [listeners EXCEPT ![i].returned = TRUE]
    /\ ev' = [Returned("Listen", 0, "ok") EXCEPT
                 !.addr = listeners[i].laddr, !.lis = i]
    /\ UNCHANGED <<keys, onlyOnion, Upgrader, raws, calls, conns, ctl, ctor>>

\* the end of Listen: t.laddr = laddr and the return (lines 242-244)
ListenReturn(i) ==
    /\ Idle
    /\ ~listeners[i].returned
    /\ laddr' = Some(listeners[i].laddr)
    /\ listeners' = [listeners EXCEPT ![i].returned = TRUE]
    /\ ev' = [Returned("Listen", 0, "ok") EXCEPT
                 !.addr = listeners[i].laddr, !.lis = i]
    /\ UNCHANGED <<keys, onlyOnion, Upgrader, raws, calls, conns, ctl, ctor>>

\* a Close that also drops the Transport's key map
Close_ForgetsKeys(i) ==
    /\ Idle
    /\ listeners[i].returned
    /\ listeners' = [listeners EXCEPT ![i].open = FALSE]
    /\ keys' = <<>>
    /\ ev' = [Returned("Close", 0, IF listeners[i].open THEN "ok" ELSE "listener closed")
                 EXCEPT !.lis = i]
    /\ UNCHANGED <<onlyOnion, laddr, Upgrader, raws, calls, conns, ctl, ctor>>

\* l.Close()
Close(i) ==
    /\ Idle
    /\ listeners[i].returned
    /\ listeners' = [listeners EXCEPT ![i].open = FALSE]
    /\ ev' = [Returned("Close", 0, IF listeners[i].open THEN "ok" ELSE "listener closed")
                 EXCEPT !.lis = i]
    /\ UNCHANGED <<keys, onlyOnion, laddr, Upgrader, raws, calls, conns, ctl, ctor>>

\* Dial's choice of the raw dial target (lines 176-183 and 189-194): the
\* service "<identifier>.onion:<port>" when the address converts to no net
\* address and has a service component, else the net address
DialPlan(a) ==
    LET netaddr == ToNetAddr(a)
    IN  IF ~netaddr.err
        THEN [err |-> "", onion |-> FALSE, host |-> netaddr.host, port |-> netaddr.port]
        ELSE LET v == ValueForProtocol(a, "onion")
             IN  IF v.err
                 THEN [err |-> "address conversion error", onion |-> FALSE,
                       host |-> <<>>, port |-> <<>>]
                 ELSE LET split == Split(v.val, ":")
                      IN  IF Len(split) < 2
                          THEN [err |-> "panic", onion |-> TRUE,
                                host |-> <<>>, port |-> <<>>]
                          ELSE [err |-> "", onion |-> TRUE,
                                host |-> split[1], port |-> split[2]]

\* the raw listeners a raw dial of the plan can reach
Reachable(plan) ==
    {i \in 1..Len(listeners) :
        /\ plan.onion
        /\ listeners[i].open
        /\ ServiceOf(listeners[i].key) = plan.host
        /\ ~Atoi(plan.port).err
        /\ Atoi(plan.port).val = listeners[i].port}

NewCall(op) ==
    [id |-> ctl.started + 1, op |-> op, pc |-> "", raddr |-> <<>>, ctx |-> FALSE,
     conn |-> 0, raw |-> 0, lis |-> 0, afterClose |-> FALSE, stages |-> <<>>]

\* t.Dial(ctx, a, p) up to the return of dialer.Dial (lines 171-197).
\* cancelled: the context is cancelled when Dial is called or while the raw
\* dial runs; none of these lines consults it.  out is what the
\* collaborators do: "dialer" (the control channel creates no dialer), "raw"
\* (the raw dial fails) or "ok".  peerOk: manet.FromNetAddr converts the
\* address the accepting side sees as its peer.
DialBegin(a, cancelled, out, peerOk) ==
    /\ Idle
    /\ ctl.started < MaxCalls
    /\ ctl' = [Started EXCEPT !.dialers = @ + 1]
    /\ LET plan == DialPlan(a)
           failed(res, stages) ==
               /\ peerOk
               /\ ev' = [Returned("Dial", ctl.started + 1, res) EXCEPT
                            !.addr = a, !.cancelled = cancelled, !.stages = stages]
               /\ UNCHANGED <<listeners, raws, calls, conns>>
       IN  IF out = "dialer" THEN failed("dialer creation error", <<"dialer">>)
           ELSE IF plan.err # "" THEN failed(plan.err, <<"dialer">>)
           ELSE IF out = "raw" THEN failed("raw dial error", <<"dialer", "raw">>)
           ELSE /\ Len(raws) < MaxRaws
                /\ ~plan.onion => peerOk
                /\ \E i \in (IF plan.onion THEN Reachable(plan) ELSE {0}) :
                      /\ raws' = Append(raws,
                            [lis |-> i, dialOpen |-> TRUE, acceptOpen |-> TRUE,
                             peerOk |-> peerOk])
                      /\ listeners' = IF i = 0 THEN listeners
                                      ELSE [listeners EXCEPT
                                               ![i].pending = Append(@, Len(raws) + 1)]
                /\ conns' = Append(conns,
                      [by |-> "Dial", raw |-> Len(raws) + 1, transport |-> Some("t"),
                       laddrRef |-> 0, raddr |-> a, returned |-> FALSE])
                /\ calls' = calls \cup
                      {[NewCall("Dial") EXCEPT !.pc = "upgrade", !.raddr = a,
                           !.ctx = cancelled, !.raw = Len(raws) + 1,
                           !.conn = Len(conns) + 1,
                           !.stages = <<"dialer", "raw">>]}
                /\ UNCHANGED ev
    /\ UNCHANGED <<keys, onlyOnion, laddr, Upgrader, ctor>>

\* a Dial that asks for the upgrade a second time when it fails
DialUpgrade_Retry(c, ok) ==
    /\ Idle
    /\ c.op = "Dial"
    /\ c.pc = "upgrade"
    /\ calls' = calls \ {c}
    /\ LET done(res, n) ==
               [Returned("Dial", c.id, res) EXCEPT
                   !.addr = c.raddr, !.cancelled = c.ctx, !.raw = c.raw,
                   !.stages = c.stages \o [k \in 1..n |-> "upgrade"]]
       IN  IF Upgrader = None
           THEN /\ ev' = done("panic", 1)
                /\ UNCHANGED <<raws, conns>>
           ELSE IF c.ctx
           THEN /\ ev' = done("context canceled", 1)
                /\ raws' = [raws EXCEPT ![c.raw].dialOpen = FALSE]
                /\ UNCHANGED conns
           ELSE IF ok
           THEN /\ ev' = [done("ok", 1) EXCEPT !.conn = c.conn]
                /\ conns' = [conns EXCEPT ![c.conn].returned = TRUE]
                /\ UNCHANGED raws
           ELSE /\ ev' = done("upgrade error", 2)
                /\ raws' = [raws EXCEPT ![c.raw].dialOpen = FALSE]
                /\ UNCHANGED conns
    /\ UNCHANGED <<keys, onlyOnion, laddr, Upgrader, listeners, ctl, ctor>>

\* t.Upgrader.UpgradeOutbound(ctx, t, &onionConn, p) and the return
\* (line 198).  ok: the upgrade succeeds when the context is live.
DialUpgrade(c, ok) ==
    /\ Idle
    /\ c.op = "Dial"
    /\ c.pc = "upgrade"
    /\ calls' = calls \ {c}
    /\ LET done(res) == [Returned("Dial", c.id, res) EXCEPT
                            !.addr = c.raddr, !.cancelled = c.ctx, !.raw = c.raw,
                            !.stages = Append(c.stages, "upgrade")]
       IN  IF Upgrader = None
           THEN /\ ev' = done("panic")
                /\ UNCHANGED <<raws, conns>>
           ELSE IF c.ctx
           THEN /\ ev' = done("context canceled")
                /\ raws' = [raws EXCEPT ![c.raw].dialOpen = FALSE]
                /\ UNCHANGED conns
           ELSE IF ok
           THEN /\ ev' = [done("ok") EXCEPT !.conn = c.conn]
                /\ conns' = [conns EXCEPT ![c.conn].returned = TRUE]
                /\ UNCHANGED raws
           ELSE /\ ev' = done("upgrade error")
                /\ raws' = [raws EXCEPT ![c.raw].dialOpen = FALSE]
                /\ UNCHANGED conns
    /\ UNCHANGED <<keys, onlyOnion, laddr, Upgrader, listeners, ctl, ctor>>

\* l.Accept() is called and blocks in l.listener.Accept() (line 286)
AcceptBegin(i) ==
    /\ Idle
    /\ ctl.started < MaxCalls
    /\ listeners[i].returned
    /\ calls' = calls \cup
          {[NewCall("Accept") EXCEPT !.pc = "blocked", !.lis = i,
               !.afterClose = ~listeners[i].open]}
    /\ ctl' = Started
    /\ UNCHANGED <<keys, onlyOnion, laddr, Upgrader, listeners, raws, conns, ctor, ev>>

AcceptOutcome_IgnoreClose(l, rs, ok) ==
    IF l.pending = <<>>
    THEN [res |-> "listener closed", raw |-> 0, wrap |-> FALSE, upgraded |-> FALSE]
    ELSE IF ~rs[Head(l.pending)].peerOk
    THEN [res |-> "address conversion error", raw |-> Head(l.pending),
          wrap |-> FALSE, upgraded |-> FALSE]
    ELSE [res |-> IF l.Upgrader = None THEN "panic" ELSE "ok",
          raw |-> Head(l.pending), wrap |-> TRUE, upgraded |-> TRUE]

\* Accept from the return of l.listener.Accept() on (lines 286-300), for the
\* listener l and the raw connections rs: the result, the raw connection
\* taken, whether an OnionConn was constructed and whether UpgradeInbound was
\* called.  Listen sets neither l.Upgrader nor l.transport (lines 227-231).
AcceptOutcome(l, rs, ok) ==
    IF ~l.open
    THEN [res |-> "listener closed", raw |-> 0, wrap |-> FALSE, upgraded |-> FALSE]
    ELSE LET conn == Head(l.pending)
         IN  IF ~rs[conn].peerOk
             THEN [res |-> "address conversion error", raw |-> conn,
                   wrap |-> FALSE, upgraded |-> FALSE]
             ELSE IF l.Upgrader = None
             THEN [res |-> "panic", raw |-> conn, wrap |-> TRUE, upgraded |-> TRUE]
             ELSE [res |-> IF ok THEN "ok" ELSE "upgrade error", raw |-> conn,
                   wrap |-> TRUE, upgraded |-> TRUE]

\* an Accept that a Close of its Listener does not wake
AcceptReturn_NeedsConn(c, ok) ==
    /\ Idle
    /\ c.op = "Accept"
    /\ listeners[c.lis].open
    /\ listeners[c.lis].pending # <<>>
    /\ LET l == listeners[c.lis]
           o == AcceptOutcome(l, raws, ok)
       IN  /\ listeners' = [listeners EXCEPT ![c.lis].pending = Tail(@)]
           /\ raws' = IF o.res = "upgrade error"
                      THEN [raws EXCEPT ![o.raw].acceptOpen = FALSE]
                      ELSE raws
           /\ conns' = IF o.wrap
                       THEN Append(conns,
                               [by |-> "Accept", raw |-> o.raw, transport |-> l.transport,
                                laddrRef |-> c.lis, raddr |-> AddrPeer,
                                returned |-> o.res = "ok"])
                       ELSE conns
           /\ ev' = [Returned("Accept", c.id, o.res) EXCEPT
                        !.lis = c.lis, !.raw = o.raw, !.afterClose = c.afterClose,
                        !.upgraded = o.upgraded,
                        !.conn = IF o.res = "ok" THEN Len(conns) + 1 ELSE 0]
    /\ calls' = calls \ {c}
    /\ UNCHANGED <<keys, onlyOnion, laddr, Upgrader, ctl, ctor>>

\* l.listener.Accept() returns, and Accept with it (lines 286-300)
AcceptReturn(c, ok) ==
    /\ Idle
    /\ c.op = "Accept"
    /\ ~listeners[c.lis].open \/ listeners[c.lis].pending # <<>>
    /\ LET l == listeners[c.lis]
           o == AcceptOutcome(l, raws, ok)
       IN  /\ listeners' = IF o.raw = 0 THEN listeners
                           ELSE [listeners EXCEPT ![c.lis].pending = Tail(@)]
           /\ raws' = IF o.res = "upgrade error"
                      THEN [raws EXCEPT ![o.raw].acceptOpen = FALSE]
                      ELSE raws
           /\ conns' = IF o.wrap
                       THEN Append(conns,
                               [by |-> "Accept", raw |-> o.raw, transport |-> l.transport,
                                laddrRef |-> c.lis, raddr |-> AddrPeer,
                                returned |-> o.res = "ok"])
                       ELSE conns
           /\ ev' = [Returned("Accept", c.id, o.res) EXCEPT
                        !.lis = c.lis, !.raw = o.raw, !.afterClose = c.afterClose,
                        !.upgraded = o.upgraded,
                        !.conn = IF o.res = "ok" THEN Len(conns) + 1 ELSE 0]
    /\ calls' = calls \ {c}
    /\ UNCHANGED <<keys, onlyOnion, laddr, Upgrader, ctl, ctor>>

\* l.Multiaddr()
Multiaddr(l) == Some(l.laddr)

\* a LocalMultiaddr that reads the Transport's field for every connection
LocalMultiaddr_TransportSlot(c) == laddr

\* c.LocalMultiaddr(): *c.laddr, where a dialed connection holds &t.laddr
\* (line 186) and an accepted one &l.laddr (line 297)
LocalMultiaddr(c) ==
    IF c.laddrRef = 0 THEN laddr ELSE Some(listeners[c.laddrRef].laddr)

\* c.Transport()
Transport(c) == c.transport

\* c.RemoteMultiaddr()
RemoteMultiaddr(c) == Some(c.raddr)

\* the caller takes the result of the call that returned; a panic ends the
\* program
Resume ==
    /\ ~Idle
    /\ ~Crashed
    /\ ev' = EvNone
    /\ UNCHANGED <<keys, onlyOnion, laddr, Upgrader, listeners, raws, calls, conns, ctl, ctor>>

\* t.CanDial(a), called between the other calls
CanDialIdle(a) ==
    /\ Idle
    /\ CanDialCall(a)

Next ==
    \/ Resume
    \/ Constructor
    \/ \E a \in ListenAddrs, out \in {"ok", "derive", "bind"} : Listen(a, out)
    \/ \E i \in 1..Len(listeners) : ListenReturn(i)
    \/ \E i \in 1..Len(listeners) : Close(i)
    \/ \E a \in DialAddrs, cancelled \in BOOLEAN, out \in {"ok", "dialer", "raw"},
          peerOk \in BOOLEAN : DialBegin(a, cancelled, out, peerOk)
    \/ \E c \in calls, ok \in BOOLEAN : DialUpgrade(c, ok)
    \/ \E i \in 1..Len(listeners) : AcceptBegin(i)
    \/ \E c \in calls, ok \in BOOLEAN : AcceptReturn(c, ok)
    \/ \E a \in DialAddrs : CanDialIdle(a)

\* NewOnionTransport(..., keysDir, false) returned: none of the calls of Next
\* reads the policy flag, the Transport is one of the mixed policy
MixedInit == TransportInit /\ ~onlyOnion

\* the calls on one Transport, from its construction on
Spec == MixedInit /\ [][Next]_vars

(***************************************************************************)
(* The same Transport with several Listeners: Listen on two addresses of   *)
(* the loaded key and on one of a key that is not loaded, and the Dial     *)
(* and Accept calls around them.                                           *)
(***************************************************************************)
\* the listener-creation requests sent to the control channel
MaxLocalListens == 2

AddrA2 == <<Comp("onion", IdA \o <<":", "8", "1">>)>>

LocalAddrs == {AddrA, AddrA2, AddrB}

NextLocal ==
    \/ Resume
    \/ Constructor
    \/ \E a \in LocalAddrs, out \in {"ok", "bind"} : ListenWithin(MaxLocalListens, a, out)
    \/ \E i \in 1..Len(listeners) : ListenReturn(i)
    \/ \E out \in {"ok", "raw"} : DialBegin(AddrA, FALSE, out, TRUE)
    \/ \E c \in calls, ok \in BOOLEAN : DialUpgrade(c, ok)
    \/ \E i \in 1..Len(listeners) : AcceptBegin(i)
    \/ \E c \in calls, ok \in BOOLEAN : AcceptReturn(c, ok)

SpecLocal == MixedInit /\ [][NextLocal]_vars

(***************************************************************************)
(* Listen on the loaded key with port texts at and beyond both ends of the *)
(* port range                                                              *)
(***************************************************************************)
PortTexts ==
    { <<"0">>, <<"1">>, <<"8", "0">>, <<"6", "5", "5", "3", "5">>,
      <<"6", "5", "5", "3", "6">>, <<"6", "5", "6", "1", "6">>, <<"-", "1">> }

PortAddrs == { <<Comp("onion", IdA \o <<":">> \o p)>> : p \in PortTexts }

NextPorts ==
    \/ Resume
    \/ \E a \in PortAddrs, out \in {"ok", "bind"} : ListenWithin(MaxLocalListens, a, out)
    \/ \E i \in 1..Len(listeners) : ListenReturn(i)

SpecPorts == MixedInit /\ [][NextPorts]_vars

(***************************************************************************)
(* Listen running concurrently with Listen, Dial and the readers of a      *)
(* dialed connection's local address.  t.laddr is an interface value of    *)
(* two words, type and data, and line 242 stores it without a lock while   *)
(* LocalMultiaddr loads it through the pointer of line 186: a data race,   *)
(* in which a load can see the old value, the new one, or the words of     *)
(* two different stores.  With the same type in both stores the mixed      *)
(* value is one of the two; over the nil value it is a multiaddr type with *)
(* nil data.                                                               *)
(***************************************************************************)
\* the interface value with the type word of a multiaddr and nil data
TornAddr == <<Comp("torn", <<>>)>>

\* the store of line 242 has written the type word over the nil value and
\* not yet the data word
ListenStoreType(i) ==
    /\ Idle
    /\ ~listeners[i].returned
    /\ laddr = None
    /\ laddr' = Some(TornAddr)
    /\ UNCHANGED <<keys, onlyOnion, Upgrader, listeners, raws, calls, conns, ctl, ctor, ev>>

\* a holder of the dialed connection d calls d.LocalMultiaddr()
LocalRead(d) ==
    /\ Idle
    /\ conns[d].by = "Dial"
    /\ LET r == LocalMultiaddr(conns[d])
       IN  ev' = [EvNone EXCEPT !.op = "LocalMultiaddr", !.res = "ok", !.conn = d,
                                !.addr = IF r = None THEN <<>> ELSE r[1]]
    /\ UNCHANGED <<tvars, ctor>>

NextRace ==
    \/ Resume
    \/ \E a \in LocalAddrs, out \in {"ok", "bind"} : ListenWithin(MaxLocalListens, a, out)
    \/ \E i \in 1..Len(listeners) : ListenStoreType(i)
    \/ \E i \in 1..Len(listeners) : ListenReturn(i)
    \/ DialBegin(AddrTCP, FALSE, "ok", TRUE)
    \/ \E d \in 1..Len(conns) : LocalRead(d)

SpecRace == MixedInit /\ [][NextRace]_vars

(***************************************************************************)
(* Accept calls that block, with the Close calls and the raw connections   *)
(* that wake them.  The raw listener returns from Accept when it is closed *)
(* or holds a connection, whatever other calls run meanwhile, and a caller *)
(* takes a result that is waiting for it.                                  *)
(***************************************************************************)
NextLive ==
    \/ Resume
    \/ Constructor
    \/ Listen(AddrA, "ok")
    \/ \E i \in 1..Len(listeners) : ListenReturn(i)
    \/ \E i \in 1..Len(listeners) : Close(i)
    \/ \E peerOk \in BOOLEAN : DialBegin(AddrA, FALSE, "ok", peerOk)
    \/ \E i \in 1..Len(listeners) : AcceptBegin(i)
    \/ \E c \in calls, ok \in BOOLEAN : AcceptReturn(c, ok)

SpecLive ==
    /\ MixedInit
    /\ [][NextLive]_vars
    /\ WF_vars(Resume)
    /\ SF_vars(\E c \in calls, ok \in BOOLEAN : AcceptReturn(c, ok))

(***************************************************************************)
(* Properties of Dial, Listen, Accept and Close                            *)
(***************************************************************************)
\* a call returned an error: neither a value nor a crash
IsError(res) == res \notin {"", "ok", "panic"}

\* the address is a service address whose identifier has no loaded key
UnloadedService(a) ==
    /\ Len(a) = 1
    /\ a[1].kind = "onion"
    /\ Len(PartsOf(a)) = 2
    /\ PartsOf(a)[1] \notin DOMAIN keys

\* what a Listener is to its holder: its fields, without the queue of its raw
\* listener
ListenerFields(l) ==
    [port |-> l.port, key |-> l.key, laddr |-> l.laddr, transport |-> l.transport,
     Upgrader |-> l.Upgrader, open |-> l.open]

\* C1: a Listen on a service address whose identifier has no entry in the
\* loaded key map returns an error, sends no listener-creation request to the
\* control channel, creates no raw listener and leaves the Transport's
\* current local address as it was before the call.
C1_ListenUnloaded ==
    [][(Idle /\ ev'.op = "Listen" /\ UnloadedService(ev'.addr))
          => /\ IsError(ev'.res)
             /\ ctl'.listenReqs = ctl.listenReqs
             /\ listeners' = listeners
             /\ laddr' = laddr]_vars

\* a Listen on an unloaded identifier returned its error on a Transport that
\* had a local address from an earlier Listen
C1_Witness ==
    /\ ev.op = "Listen"
    /\ UnloadedService(ev.addr)
    /\ ev.res = "missing onion service key material"
    /\ laddr # None
    /\ Len(ctl.listenReqs) = 1

\* C2: when a Dial and an Accept complete for the same raw connection, the
\* two Connections have swapped logical addresses: the dialed one's remote
\* address is the accepted one's local address, and the dialed one's local
\* address is the accepted one's remote address.  Accept is taken at the
\* Connection it constructs for the inbound upgrade.
C2_SwappedAddresses ==
    \A d \in 1..Len(conns), a \in 1..Len(conns) :
        (/\ conns[d].by = "Dial"
         /\ conns[d].returned
         /\ conns[a].by = "Accept"
         /\ conns[a].raw = conns[d].raw)
            => /\ RemoteMultiaddr(conns[d]) = LocalMultiaddr(conns[a])
               /\ LocalMultiaddr(conns[d]) = RemoteMultiaddr(conns[a])

\* C3: a Dial whose context is cancelled before the raw connection completes
\* returns the cancellation error, and when it has returned no raw connection
\* it opened is still open.
C3_CancelledDial ==
    (ev.op = "Dial" /\ ev.cancelled)
        => /\ ev.res = "context canceled"
           /\ ev.raw # 0 => ~raws[ev.raw].dialOpen

\* C4: an Accept call started after Close was called on its Listener returns
\* an error, returns no Connection, performs no upgrade and does not crash.
C4_AcceptAfterClose ==
    (ev.op = "Accept" /\ ev.afterClose)
        => /\ IsError(ev.res)
           /\ ev.conn = 0
           /\ ev.raw = 0
           /\ ~ev.upgraded

\* an Accept started after Close returned while a raw connection was waiting
\* at the closed Listener
C4_Witness ==
    /\ ev.op = "Accept"
    /\ ev.afterClose
    /\ ev.res = "listener closed"
    /\ listeners[ev.lis].pending # <<>>

\* C5: no Dial, Listen or Accept call crashes, and when one returns an error
\* the key map, the policy flag, the current local address and every open
\* Listener are as they were before it returned.
C5_NoCrashAndFrame ==
    [][(Idle /\ ev'.op \in {"Dial", "Listen", "Accept"})
          => /\ ev'.res # "panic"
             /\ IsError(ev'.res)
                   => /\ keys' = keys
                      /\ onlyOnion' = onlyOnion
                      /\ laddr' = laddr
                      /\ Len(listeners') = Len(listeners)
                      /\ \A i \in 1..Len(listeners) :
                            listeners[i].open
                               => ListenerFields(listeners'[i])
                                     = ListenerFields(listeners[i])]_vars

\* C11: the key map is the same in every state after construction: the map
\* the constructor loaded, whatever Dial, Listen, CanDial, Accept and Close
\* calls have run since.
C11_KeysFixed == keys = ctor.loaded.keys[1]

\* a CanDial answered on a Transport that has listened, dialed twice and
\* closed its Listener
C11_Witness ==
    /\ ev.op = "CanDial"
    /\ \E i \in 1..Len(listeners) : listeners[i].returned /\ ~listeners[i].open
    /\ \E d \in 1..Len(conns) : conns[d].by = "Dial" /\ conns[d].returned
    /\ ctl.started = MaxCalls

\* a step on which a Listen call returns its Listener
ListenSucceeds == Idle /\ ev'.op = "Listen" /\ ev'.res = "ok"

\* C12: the Transport's current local address is absent while no Listen has
\* succeeded, and from then on it is the address of the Listen that succeeded
\* most recently.  Only a succeeding Listen writes it, and it writes it only
\* after the control channel has created the raw listener for its request.
C12_CurrentLocalAddress ==
    /\ []((\A i \in 1..Len(listeners) : ~listeners[i].returned) => laddr = None)
    /\ [][/\ ListenSucceeds => laddr' = Some(ev'.addr)
          /\ ~ListenSucceeds => laddr' = laddr
          /\ laddr' # laddr
                => \E i \in 1..Len(listeners) :
                      /\ ~listeners[i].returned
                      /\ listeners'[i].returned
                      /\ laddr' = Some(listeners[i].laddr)
                      /\ \E q \in 1..Len(ctl.listenReqs) :
                            ctl.listenReqs[q] = [port |-> listeners[i].port,
                                                 key |-> listeners[i].key]]_vars

\* a second Listen succeeded on another address than the first
C12_Witness ==
    /\ ev.op = "Listen"
    /\ ev.res = "ok"
    /\ laddr = Some(ev.addr)
    /\ \E i \in 1..Len(listeners) :
          listeners[i].returned /\ listeners[i].laddr # ev.addr

\* C13: the local address a dialed Connection reports is the Transport's
\* local address as it was when the Connection was constructed, and it stays
\* that value: no later step, a later Listen included, changes what a
\* Connection that Dial has returned reports.
C13_DialedLocalStays ==
    [][\A d \in 1..Len(conns) :
          (conns[d].by = "Dial" /\ conns[d].returned)
             => LocalMultiaddr(conns[d])' = LocalMultiaddr(conns[d])]_vars

\* the Listener a raw connection arrived at
ListenerOf(c) == listeners[raws[c.raw].lis]

\* C14: every Connection Accept constructs reports as its local address the
\* address of the Listener its raw connection arrived at, which is what that
\* Listener's address accessor returns; no later step, a later Listen
\* included, changes what the Listener or the Connection reports.
C14_AcceptedLocalIsListeners ==
    /\ [](\A a \in 1..Len(conns) :
             conns[a].by = "Accept"
                => LocalMultiaddr(conns[a]) = Multiaddr(ListenerOf(conns[a])))
    /\ [][/\ \A i \in 1..Len(listeners) :
                Multiaddr(listeners[i])' = Multiaddr(listeners[i])
          /\ \A a \in 1..Len(conns) :
                conns[a].by = "Accept"
                   => LocalMultiaddr(conns[a])' = LocalMultiaddr(conns[a])]_vars

\* an accepted Connection of the first Listener, on a Transport whose current
\* local address is the address of a later Listen
C14_Witness ==
    \E a \in 1..Len(conns) :
        /\ conns[a].by = "Accept"
        /\ LocalMultiaddr(conns[a]) = Some(AddrA)
        /\ laddr = Some(AddrA2)

\* C15: the Connection Accept wraps the raw connection in has as its owning
\* Transport the Transport whose Listen created the Listener, and the inbound
\* upgrade it is handed to is that Transport's upgrader.
C15_AcceptedOwner ==
    \A a \in 1..Len(conns) :
        conns[a].by = "Accept"
           => /\ Transport(conns[a]) = Some("t")
              /\ ListenerOf(conns[a]).Upgrader = Upgrader

\* the integer the port text of a service address denotes
PortOf(a) == DecimalValue(PartsOf(a)[2])

\* the address of the Listen that sent the newest listener-creation request
RequestedFor ==
    IF Len(listeners') > Len(listeners) THEN listeners'[Len(listeners')].laddr
    ELSE ev'.addr

\* C16: the port of every listener-creation request Listen sends is the
\* integer port of its address and lies in 1..65535; a Listen on an address
\* whose port is 0, negative or 65536 and more returns an error, and sends
\* no request for that port reduced modulo 65536.
C16_RequestedPort ==
    [][/\ ctl'.listenReqs # ctl.listenReqs
             => LET req == ctl'.listenReqs[Len(ctl'.listenReqs)]
                IN  /\ req.port = PortOf(RequestedFor)
                    /\ req.port \in 1..(PortLimit - 1)
       /\ (Idle /\ ev'.op = "Listen" /\ PortOf(ev'.addr) \notin 1..(PortLimit - 1))
             => IsError(ev'.res)]_vars

\* the stage sequences of a Dial: each stage at most once, in order, none
\* after a later one
DialStageOrders ==
    { <<"dialer">>, <<"dialer", "raw">>, <<"dialer", "raw", "upgrade">> }

\* C17: each Dial runs its stages once and in order: exactly one
\* dialer-creation request, then at most one raw dial, then at most one
\* upgrade.  A Dial that ends before the upgrade ends with the failure of its
\* last stage, a Dial still running has done its raw dial once and no
\* upgrade, and no stage is retried.
C17_DialStages ==
    /\ ev.op = "Dial"
          => /\ ev.stages \in DialStageOrders
             /\ Len(ev.stages) < 3 => IsError(ev.res)
             /\ ev.res = "ok" => ev.stages = <<"dialer", "raw", "upgrade">>
    /\ \A c \in calls : c.op = "Dial" => c.stages = <<"dialer", "raw">>

\* a Dial returned the error of its upgrade
C17_Witness ==
    /\ ev.op = "Dial"
    /\ ev.res = "upgrade error"
    /\ ev.stages = <<"dialer", "raw", "upgrade">>

\* the n-th call is an Accept blocked in the raw listener
Blocked(n) == \E c \in calls : c.id = n /\ c.op = "Accept"

\* Close has been called on its Listener
ClosedUnder(n) ==
    \E c \in calls : c.id = n /\ c.op = "Accept" /\ ~listeners[c.lis].open

\* a raw connection waits at its Listener
Arrived(n) ==
    \E c \in calls : c.id = n /\ c.op = "Accept" /\ listeners[c.lis].pending # <<>>

\* C18: an Accept blocked in the raw listener ends once Close has been called
\* on its Listener: it returns, or an upgrade that was called does not return
\* (the program has crashed); no Accept stays blocked forever after Close.
\* It ends likewise once a raw connection has arrived at its Listener, unless
\* another Accept on the same Listener has taken that connection.
C18_AcceptEnds ==
    \A n \in 1..MaxCalls :
        /\ ClosedUnder(n) ~> (~Blocked(n) \/ Crashed)
        /\ Arrived(n) ~> (~Blocked(n) \/ Crashed \/ ~Arrived(n))

\* an Accept that was blocked before its Listener was closed returned the
\* error of the closed Listener
C18_Witness ==
    /\ ev.op = "Accept"
    /\ ev.res = "listener closed"
    /\ ~ev.afterClose

\* the addresses of the Listens whose raw listener was created
CreatedAddrs == {listeners[i].laddr : i \in 1..Len(listeners)}

\* C19: under every interleaving of concurrent Listen and Dial calls, the
\* local address of a dialed Connection is absent or the address of a Listen
\* whose raw listener was created, never another value; and after two
\* concurrent Listens have succeeded the Transport's current local address is
\* the address of one of them.
C19_RacingListen ==
    /\ ev.op = "LocalMultiaddr" => ev.addr \in {<<>>} \cup CreatedAddrs
    /\ (Len(listeners) = 2 /\ \A i \in 1..2 : listeners[i].returned)
          => laddr \in {Some(a) : a \in CreatedAddrs}

\* C20: each Accept takes at most one raw connection from the raw listener,
\* and a raw connection it has taken is handed to the upgrade or, when Accept
\* returns an error before the upgrade, is not left open: an Accept that
\* fails because the peer address cannot be converted closes the raw
\* connection it took.
C20_TakenRawNotLeaked ==
    (ev.op = "Accept" /\ ev.raw # 0)
        => \/ ev.upgraded
           \/ ~raws[ev.raw].acceptOpen

====
